---- MODULE Spec2Model ----
(***************************************************************************)
(* Model of the bundless dev server (remorses/espack):                     *)
(*   - the import-path <-> file-path codec (utils/convertors.ts),          *)
(*   - the request middleware, the node-module pre-bundle hook, the HMR    *)
(*     websocket wiring and the shutdown path of createApp / serve.        *)
(* Strings are sequences of one-character strings, so that the regular     *)
(* expression replacements and path.resolve / path.relative are computed   *)
(* character by character and segment by segment, as node does.            *)
(***************************************************************************)
EXTENDS Integers, Sequences, FiniteSets, TLC

\* ------------------------------------------------------------------ bounds
MaxLen == 6        \* longest file path given to the codec
MaxUrlLen == 4     \* longest request path given to the codec
NClients == 2      \* websocket clients that may try to connect
MaxChanges == 2    \* filesystem change events observed
NReq == 2          \* http requests that may be in flight together
NResolve == 2      \* onResolved calls that may be in flight together

\* ------------------------------------------------------- string primitives
FileAlphabet == {"r", ".", "/"}
\* "%2e" and "%2f" each stand for the three characters of a percent escape
UrlAlphabet == {"r", ".", "/", "%2e", "%2f", "?"}

Strs(A, n) == UNION {[1..k -> A] : k \in 0..n}

startsWith(s, p) == Len(s) >= Len(p) /\ SubSeq(s, 1, Len(p)) = p

endsWith(s, p) == Len(s) >= Len(p) /\ SubSeq(s, Len(s) - Len(p) + 1, Len(s)) = p

includes(s, p) == \E i \in 1..(Len(s) - Len(p) + 1) : SubSeq(s, i, i + Len(p) - 1) = p

\* String.prototype.replace(/pat/g, rep) for a literal pattern: leftmost,
\* non-overlapping matches
RECURSIVE replaceAll(_, _, _)
replaceAll(s, pat, rep) ==
    IF Len(s) < Len(pat) THEN s
    ELSE IF SubSeq(s, 1, Len(pat)) = pat
         THEN rep \o replaceAll(SubSeq(s, Len(pat) + 1, Len(s)), pat, rep)
         ELSE <<Head(s)>> \o replaceAll(Tail(s), pat, rep)

\* String.prototype.replace with a non-global pattern: first match only
RECURSIVE replaceFirst(_, _, _)
replaceFirst(s, pat, rep) ==
    IF Len(s) < Len(pat) THEN s
    ELSE IF SubSeq(s, 1, Len(pat)) = pat
         THEN rep \o SubSeq(s, Len(pat) + 1, Len(s))
         ELSE <<Head(s)>> \o replaceFirst(Tail(s), pat, rep)

\* s.split('/')
RECURSIVE split(_)
split(s) ==
    IF \A i \in 1..Len(s) : s[i] # "/" THEN <<s>>
    ELSE LET i == CHOOSE k \in 1..Len(s) :
                     s[k] = "/" /\ \A j \in 1..(k - 1) : s[j] # "/"
         IN <<SubSeq(s, 1, i - 1)>> \o split(SubSeq(s, i + 1, Len(s)))

RECURSIVE join(_)
join(segs) ==
    IF segs = <<>> THEN <<>>
    ELSE IF Len(segs) = 1 THEN Head(segs)
    ELSE Head(segs) \o <<"/">> \o join(Tail(segs))

\* ------------------------------------------------------------ node's path
DotDot == <<".", ".">>

\* normalisation of the segments of an absolute posix path: empty and `.`
\* segments vanish, `..` removes the segment before it (and vanishes at `/`)
RECURSIVE normalizeSegs(_, _)
normalizeSegs(segs, acc) ==
    IF segs = <<>> THEN acc
    ELSE LET h == Head(segs) IN
         IF h = <<>> \/ h = <<".">> THEN normalizeSegs(Tail(segs), acc)
         ELSE IF h = DotDot
              THEN normalizeSegs(Tail(segs),
                                 IF acc = <<>> THEN acc
                                 ELSE SubSeq(acc, 1, Len(acc) - 1))
              ELSE normalizeSegs(Tail(segs), Append(acc, h))

segsOf(p) == normalizeSegs(split(p), <<>>)

\* path.normalize of an absolute path
normalize(p) == <<"/">> \o join(segsOf(p))

\* path.resolve(root, request) with an absolute root
path_resolve(root, request) ==
    IF startsWith(request, <<"/">>) THEN normalize(request)
    ELSE normalize(root \o <<"/">> \o request)

RECURSIVE commonLen(_, _)
commonLen(a, b) ==
    IF a = <<>> \/ b = <<>> THEN 0
    ELSE IF Head(a) = Head(b) THEN 1 + commonLen(Tail(a), Tail(b))
    ELSE 0

\* path.relative(from, to) for absolute paths
path_relative(from, to) ==
    LET a == segsOf(from)
        b == segsOf(to)
        c == commonLen(a, b)
    IN join([i \in 1..(Len(a) - c) |-> DotDot] \o SubSeq(b, c + 1, Len(b)))

\* ------------------------------------------------------------ convertors
dotdotEncoding == <<".", ".", ".">>

decodeURIComponent(s) ==
    [i \in 1..Len(s) |-> IF s[i] = "%2e" THEN "."
                         ELSE IF s[i] = "%2f" THEN "/"
                         ELSE s[i]]

\* strips the query and the hash
cleanUrl(s) ==
    IF \A i \in 1..Len(s) : s[i] # "?" THEN s
    ELSE LET i == CHOOSE k \in 1..Len(s) :
                     s[k] = "?" /\ \A j \in 1..(k - 1) : s[j] # "?"
         IN SubSeq(s, 1, i - 1)

importPathToFile(root, request) ==
    LET r1 == decodeURIComponent(request)
        r2 == cleanUrl(r1)
        r3 == IF startsWith(r2, <<"/">>) THEN Tail(r2) ELSE r2
        r4 == path_resolve(root, r3)
    IN replaceAll(r4, dotdotEncoding, DotDot)

fileToImportPath_firstOnly(root, filePath) ==
    LET f1 == path_resolve(root, filePath)
        f2 == path_relative(root, f1)
        f3 == replaceFirst(f2, DotDot, dotdotEncoding)
    IN <<"/">> \o f3

fileToImportPath_collapse(root, filePath) ==
    LET f1 == path_resolve(root, filePath)
        f2 == path_relative(root, f1)
        f3 == replaceAll(replaceAll(f2, dotdotEncoding, DotDot), DotDot, dotdotEncoding)
    IN <<"/">> \o f3

fileToImportPath(root, filePath) ==
    LET f1 == path_resolve(root, filePath)
        f2 == path_relative(root, f1)
        f3 == replaceAll(f2, DotDot, dotdotEncoding)
    IN <<"/">> \o f3

\* ------------------------------------------------------------------ state
\* one call of a pure function: its root, its argument, its stage, its result
VARIABLES cRoot, cArg, cOp, cOut

codecVars == <<cRoot, cArg, cOp, cOut>>

\* server side of createApp / serve
VARIABLES
    done,             \* hmrMiddleware: `let done`
    upgradeHandlers,  \* listeners of server 'upgrade'
    connectionHandlers, \* listeners of wss 'connection'
    closeHandlers,    \* app.once('close') listeners installed by hmrMiddleware
    sendHmrMessage,   \* context.sendHmrMessage: "default" or "broadcast"
    msgListeners,     \* 'message' listeners, per emitter (wss or a socket)
    proto,            \* sec-websocket-protocol each client presented
    sockState,        \* readyState of each client's socket
    outbox,           \* what the server sent on each socket, in order
    wssClosed,        \* wss.close() has been called
    pluginsClosed,    \* pluginExecutor.close() has been called
    srv,              \* http server: listening, closing, closed
    graph,            \* graph.nodes
    emitted,          \* payloads handed to context.sendHmrMessage
    nChanges,         \* change events observed so far
    lastHot,          \* path of the last hotAccept message a client sent
    lastChanged       \* file of the last change event

hmrVars == <<done, upgradeHandlers, connectionHandlers, closeHandlers,
             sendHmrMessage, msgListeners>>

wsVars == <<proto, sockState, outbox>>

closeVars == <<wssClosed, pluginsClosed, srv>>

watchVars == <<graph, emitted, nChanges, lastHot, lastChanged>>

\* requests going through pluginsMiddleware
VARIABLES
    reqPc,            \* where each request is in the middleware
    reqPath,          \* ctx.path
    reqFile,          \* filePath = importPathToFile(root, ctx.path)
    reqBody,          \* ctx.body: "" until set
    watched,          \* paths given to watcher.add
    watchAdds,        \* calls of watcher.add
    reqAccept,        \* ctx.headers.accept
    reqDest,          \* ctx.headers['sec-fetch-dest']
    reqLoaded,        \* what pluginExecutor.load gave the request
    reqTransformed,   \* what pluginExecutor.transform gave the request
    reqWatch          \* whether the request called watcher.add

reqVars == <<reqPc, reqPath, reqFile, reqBody, watched, watchAdds, reqAccept,
             reqDest, reqLoaded, reqTransformed, reqWatch>>

\* calls of NodeResolvePlugin's onResolved
VARIABLES
    resPc,            \* where each call is
    resPath,          \* resolvedPath
    resEntry,         \* entryPoints handed to prebundle, while it runs
    resRun,           \* the pre-bundle run the call started (0: none)
    resOut,           \* the value the call returned
    bundleMap,        \* `let bundleMap`, as a function on its keys
    bundleRun,        \* the run that produced bundleMap (0: undefined)
    runs,             \* pre-bundle runs started so far
    resCause,         \* what the call's prebundle promise rejected with
    resErr            \* the error the call threw

resVars == <<resPc, resPath, resEntry, resRun, resOut, bundleMap, bundleRun, runs,
             resCause, resErr>>

serverVars == <<hmrVars, wsVars, closeVars, watchVars, reqVars, resVars>>

vars == <<codecVars, serverVars>>


\* ------------------------------------------------- codec, as applications
Roots == {<<"/", "r">>, <<"/", "r", "/", "r">>}

FileStrs == Strs(FileAlphabet, MaxLen)

UrlStrs == Strs(UrlAlphabet, MaxUrlLen)

isNormAbs(p) == startsWith(p, <<"/">>) /\ normalize(p) = p

NormAbsPaths == {p \in FileStrs : isNormAbs(p)}

isInside(r, p) ==
    LET a == segsOf(r)
        b == segsOf(p)
    IN commonLen(a, b) = Len(a)

CodecInit ==
    /\ cRoot \in Roots
    /\ cArg \in FileStrs \cup UrlStrs
    /\ cOp = "input"
    /\ cOut = <<>>

CodecOff ==
    /\ cRoot = <<"/", "r">>
    /\ cArg = <<>>
    /\ cOp = "off"
    /\ cOut = <<>>

Encode ==
    /\ cOp = "input"
    /\ cArg \in FileStrs
    /\ cOut' = fileToImportPath(cRoot, cArg)
    /\ cOp' = "encoded"
    /\ UNCHANGED <<cRoot, cArg>>

Decode ==
    /\ cOp = "input"
    /\ cOut' = importPathToFile(cRoot, cArg)
    /\ cOp' = "decoded"
    /\ UNCHANGED <<cRoot, cArg>>

DecodeEncoded ==
    /\ cOp = "encoded"
    /\ cOut' = importPathToFile(cRoot, cOut)
    /\ cOp' = "roundtrip"
    /\ UNCHANGED <<cRoot, cArg>>

\* ----------------------------------------------------------------- server
root == <<"/", "r">>

HMR_SERVER_NAME == "HMR_SERVER_NAME"

Protocols == {HMR_SERVER_NAME, "other"}

Client == 1..NClients

\* event emitters that can carry 'message' listeners: the websocket server
\* (0) and each client socket
wss == 0

Emitters == {wss} \cup Client

\* files of the project on disk: two under the root, one outside it
fileA == <<"/", "r", "/", "a">>
fileB == <<"/", "r", "/", "b">>
fileC == <<"/", "c">>

SrvFiles == {fileA, fileB, fileC}

\* the static imports found in each file
ProjectImports(f) ==
    IF f = fileA THEN {fileB}
    ELSE IF f = fileB THEN {fileC}
    ELSE {}

\* url paths a client may name in a hotAccept message
HotPaths == {<<"/", "a">>, <<"/", ".", ".", ".", "/", "c">>}

\* osAgnosticPath(p, root): the root-relative path that keys graph.nodes and
\* the bundle map
osAgnosticPath(p, r) == path_relative(r, p)

Keys == {osAgnosticPath(f, root) : f \in SrvFiles}

newNode == [importers |-> {}, importees |-> {},
            hasHmrAccept |-> FALSE, isHmrEnabled |-> FALSE]

\* graph.ensureEntry: get or create
ensureEntry(g, k) == IF k \in DOMAIN g THEN g ELSE g @@ (k :> newNode)

\* an import a -> b found while transforming a
addImport(g, a, b) ==
    LET g1 == ensureEntry(ensureEntry(g, a), b)
    IN [g1 EXCEPT ![a].importees = @ \cup {b}, ![b].importers = @ \cup {a}]

RECURSIVE addImports(_, _, _)
addImports(g, a, bs) ==
    IF bs = {} THEN ensureEntry(g, a)
    ELSE LET b == CHOOSE x \in bs : TRUE
         IN addImports(addImport(g, a, b), a, bs \ {b})

\* the handler registered with wss.on('message', ...)
onMessage(g, path) ==
    LET k == osAgnosticPath(importPathToFile(root, path), root)
        g1 == ensureEntry(g, k)
    IN [g1 EXCEPT ![k].hasHmrAccept = TRUE, ![k].isHmrEnabled = TRUE]

noPayload == [type |-> "none", paths |-> {}, timestamp |-> 0]

fullReload == [type |-> "full-reload", paths |-> {}, timestamp |-> 0]

\* breadth-first walk over incoming edges
RECURSIVE walk(_, _, _, _, _)
walk(g, frontier, visited, boundaries, uncovered) ==
    IF frontier = {} THEN [boundaries |-> boundaries, uncovered |-> uncovered]
    ELSE LET acc == {n \in frontier : g[n].hasHmrAccept}
             rest == frontier \ acc
             next == (UNION {g[n].importers : n \in rest}) \ (visited \cup frontier)
         IN walk(g, next, visited \cup frontier, boundaries \cup acc,
                 uncovered \/ (\E n \in rest : g[n].importers = {}))

urlOfKey(k) == fileToImportPath(root, path_resolve(root, k))

\* onFileChange: the payload for a change of filePath, noPayload if the file
\* has no node
onFileChange(g, filePath, now) ==
    LET k == osAgnosticPath(filePath, root) IN
    IF k \notin DOMAIN g THEN noPayload
    ELSE LET w == walk(g, {k}, {}, {}, FALSE) IN
         IF w.boundaries # {} /\ ~w.uncovered
         THEN [type |-> "update",
               paths |-> {urlOfKey(b) : b \in w.boundaries},
               timestamp |-> now]
         ELSE fullReload

connected == [type |-> "connected", paths |-> {}, timestamp |-> 0]

\* wss.clients: sockets are removed when they reach CLOSED
wssClients == {c \in Client : sockState[c] \in {"OPEN", "CLOSING"}}

\* context.sendHmrMessage(payload): the default only logs, the one assigned
\* by hmrMiddleware sends to every OPEN client
sent(payload) ==
    IF sendHmrMessage = "broadcast"
    THEN [c \in Client |->
            IF c \in wssClients /\ sockState[c] = "OPEN"
            THEN Append(outbox[c], payload) ELSE outbox[c]]
    ELSE outbox

Req == 1..NReq

Res == 1..NResolve

RequestInit ==
    /\ reqPc = [r \in Req |-> "idle"]
    /\ reqPath = [r \in Req |-> <<>>]
    /\ reqFile = [r \in Req |-> <<>>]
    /\ reqBody = [r \in Req |-> ""]
    /\ watched = {}
    /\ watchAdds = 0
    /\ reqAccept = [r \in Req |-> ""]
    /\ reqDest = [r \in Req |-> ""]
    /\ reqLoaded = [r \in Req |-> "none"]
    /\ reqTransformed = [r \in Req |-> "none"]
    /\ reqWatch = [r \in Req |-> FALSE]

ResolveInit ==
    /\ resPc = [t \in Res |-> "idle"]
    /\ resPath = [t \in Res |-> <<>>]
    /\ resEntry = [t \in Res |-> {}]
    /\ resRun = [t \in Res |-> 0]
    /\ resOut = [t \in Res |-> <<>>]
    /\ bundleMap = <<>>
    /\ bundleRun = 0
    /\ runs = 0
    /\ resCause = [t \in Res |-> ""]
    /\ resErr = [t \in Res |-> <<>>]

ServerInit ==
    /\ done = FALSE
    /\ upgradeHandlers = 0
    /\ connectionHandlers = 0
    /\ closeHandlers = 0
    /\ sendHmrMessage = "default"
    /\ msgListeners = [e \in Emitters |-> 0]
    /\ proto = [c \in Client |-> "none"]
    /\ sockState = [c \in Client |-> "none"]
    /\ outbox = [c \in Client |-> <<>>]
    /\ wssClosed = FALSE
    /\ pluginsClosed = FALSE
    /\ srv = "listening"
    /\ graph = <<>>
    /\ emitted = <<>>
    /\ nChanges = 0
    /\ lastHot = <<>>
    /\ lastChanged = <<>>
    /\ RequestInit
    /\ ResolveInit

\* every graph over the project's files: any import relation without
\* self-imports, any set of self-accepting modules
mkGraph(K, E, A) ==
    [k \in K |-> [importers |-> {a \in K : <<a, k>> \in E},
                  importees |-> {b \in K : <<k, b>> \in E},
                  hasHmrAccept |-> k \in A,
                  isHmrEnabled |-> k \in A]]

Graphs ==
    {mkGraph(K, E, A) :
        <<K, E, A>> \in {t \in (SUBSET Keys) \X (SUBSET (Keys \X Keys)) \X (SUBSET Keys) :
                           /\ t[2] \subseteq t[1] \X t[1]
                           /\ \A e \in t[2] : e[1] # e[2]
                           /\ t[3] \subseteq t[1]}}

\* the server after its first request, with some graph built by then
InvalidateInit ==
    /\ done = TRUE
    /\ upgradeHandlers = 1
    /\ connectionHandlers = 1
    /\ closeHandlers = 1
    /\ sendHmrMessage = "broadcast"
    /\ msgListeners = [e \in Emitters |-> 0]
    /\ proto = [c \in Client |-> "none"]
    /\ sockState = [c \in Client |-> "none"]
    /\ outbox = [c \in Client |-> <<>>]
    /\ wssClosed = FALSE
    /\ pluginsClosed = FALSE
    /\ srv = "listening"
    /\ graph \in Graphs
    /\ emitted = <<>>
    /\ nChanges = 0
    /\ lastHot = <<>>
    /\ lastChanged = <<>>
    /\ RequestInit
    /\ ResolveInit

\* the middleware of hmrMiddleware, run by every http request
hmrMiddlewareStep_noDone ==
    /\ closeHandlers' = closeHandlers + 1
    /\ upgradeHandlers' = upgradeHandlers + 1
    /\ connectionHandlers' = connectionHandlers + 1
    /\ sendHmrMessage' = "broadcast"
    /\ done' = TRUE
    /\ UNCHANGED msgListeners

hmrMiddlewareStep ==
    IF done THEN UNCHANGED hmrVars
    ELSE /\ closeHandlers' = closeHandlers + 1
         /\ upgradeHandlers' = upgradeHandlers + 1
         /\ connectionHandlers' = connectionHandlers + 1
         /\ sendHmrMessage' = "broadcast"
         /\ done' = TRUE
         /\ UNCHANGED msgListeners

\* an http request that the later middlewares pass on untouched
HttpRequest ==
    /\ srv = "listening"
    /\ hmrMiddlewareStep
    /\ UNCHANGED <<wsVars, closeVars, watchVars, reqVars, resVars>>

\* the transform of file f registers its imports in the graph; it runs inside
\* a request, hence after the hmr middleware
Discover(f) ==
    /\ srv = "listening"
    /\ done
    /\ graph' = addImports(graph, osAgnosticPath(f, root),
                           {osAgnosticPath(i, root) : i \in ProjectImports(f)})
    /\ graph' # graph
    /\ UNCHANGED <<hmrVars, wsVars, closeVars, emitted, nChanges, lastHot, lastChanged,
                   reqVars, resVars>>

\* server.on('upgrade') and wss.on('connection')
Upgrade_anyProtocol(c, p) ==
    /\ srv = "listening"
    /\ proto[c] = "none"
    /\ proto' = [proto EXCEPT ![c] = p]
    /\ IF upgradeHandlers = 0
       THEN /\ sockState' = [sockState EXCEPT ![c] = "refused"]
            /\ UNCHANGED <<outbox, msgListeners>>
       ELSE /\ sockState' = [sockState EXCEPT ![c] = "OPEN"]
            /\ outbox' = [outbox EXCEPT ![c] =
                            IF connectionHandlers > 0
                            THEN Append(@, connected) ELSE @]
            /\ msgListeners' = [msgListeners EXCEPT
                                  ![wss] = @ + connectionHandlers]
    /\ UNCHANGED <<done, upgradeHandlers, connectionHandlers, closeHandlers,
                   sendHmrMessage, closeVars, watchVars, reqVars, resVars>>

Upgrade(c, p) ==
    /\ srv = "listening"
    /\ proto[c] = "none"
    /\ proto' = [proto EXCEPT ![c] = p]
    /\ IF upgradeHandlers = 0
       THEN \* no 'upgrade' listener: node destroys the socket
            /\ sockState' = [sockState EXCEPT ![c] = "refused"]
            /\ UNCHANGED <<outbox, msgListeners>>
       ELSE IF p = HMR_SERVER_NAME
       THEN \* handleUpgrade, then the 'connection' handler, in one tick
            /\ sockState' = [sockState EXCEPT ![c] = "OPEN"]
            /\ outbox' = [outbox EXCEPT ![c] =
                            IF connectionHandlers > 0
                            THEN Append(@, connected) ELSE @]
            /\ msgListeners' = [msgListeners EXCEPT
                                  ![wss] = @ + connectionHandlers]
       ELSE \* the handler does nothing: the socket is never upgraded
            UNCHANGED <<sockState, outbox, msgListeners>>
    /\ UNCHANGED <<done, upgradeHandlers, connectionHandlers, closeHandlers,
                   sendHmrMessage, closeVars, watchVars, reqVars, resVars>>

\* a client sends {type: "hotAccept", path}: its socket emits 'message', and
\* the listeners registered on that socket run
ClientSend(c, path) ==
    /\ sockState[c] = "OPEN"
    /\ lastHot' = path
    /\ graph' = IF msgListeners[c] > 0 THEN onMessage(graph, path) ELSE graph
    /\ UNCHANGED <<hmrVars, wsVars, closeVars, emitted, nChanges, lastChanged,
                   reqVars, resVars>>

\* the socket of a client reaches CLOSED (closing handshake done, or the
\* client went away)
SocketClosed(c) ==
    /\ sockState[c] \in {"OPEN", "CLOSING"}
    /\ sockState' = [sockState EXCEPT ![c] = "CLOSED"]
    /\ UNCHANGED <<hmrVars, proto, outbox, closeVars, watchVars, reqVars, resVars>>

\* watcher.on('change')
FileChange_noSend(filePath) ==
    /\ nChanges < MaxChanges
    /\ nChanges' = nChanges + 1
    /\ lastChanged' = filePath
    /\ UNCHANGED <<emitted, outbox>>
    /\ UNCHANGED <<hmrVars, proto, sockState, closeVars, graph, lastHot,
                   reqVars, resVars>>

\* the handler as the specification words it: a file with no node is ignored
FileChange_ignoreUnimported(filePath) ==
    /\ nChanges < MaxChanges
    /\ nChanges' = nChanges + 1
    /\ lastChanged' = filePath
    /\ LET payload == onFileChange(graph, filePath, nChanges + 1) IN
       IF payload = noPayload
       THEN UNCHANGED <<emitted, outbox>>
       ELSE /\ emitted' = Append(emitted, payload)
            /\ outbox' = sent(payload)
    /\ UNCHANGED <<hmrVars, proto, sockState, closeVars, graph, lastHot,
                   reqVars, resVars>>

\* "changing anything inside root that is not ignored and that is not in
\* graph will cause reload"
FileChange(filePath) ==
    /\ nChanges < MaxChanges
    /\ nChanges' = nChanges + 1
    /\ lastChanged' = filePath
    /\ LET payload == IF osAgnosticPath(filePath, root) \notin DOMAIN graph
                      THEN fullReload
                      ELSE onFileChange(graph, filePath, nChanges + 1) IN
       IF payload = noPayload
       THEN UNCHANGED <<emitted, outbox>>
       ELSE /\ emitted' = Append(emitted, payload)
            /\ outbox' = sent(payload)
    /\ UNCHANGED <<hmrVars, proto, sockState, closeVars, graph, lastHot,
                   reqVars, resVars>>

\* serve(...).close(): app.emit('close'), then close() of the listener
Close ==
    /\ srv = "listening"
    /\ pluginsClosed' = TRUE
    /\ IF closeHandlers > 0
       THEN /\ wssClosed' = TRUE
            /\ sockState' = [c \in Client |->
                               IF sockState[c] = "OPEN" THEN "CLOSING"
                               ELSE sockState[c]]
       ELSE UNCHANGED <<wssClosed, sockState>>
    /\ closeHandlers' = 0
    /\ srv' = "closing"
    /\ UNCHANGED <<done, upgradeHandlers, connectionHandlers, sendHmrMessage,
                   msgListeners, proto, outbox, watchVars, reqVars, resVars>>

\* the promise returned by close() resolves once the http server has no
\* connection left
CloseResolved ==
    /\ srv = "closing"
    /\ wssClients = {}
    /\ srv' = "closed"
    /\ UNCHANGED <<hmrVars, wsVars, wssClosed, pluginsClosed, watchVars,
                   reqVars, resVars>>


\* ------------------------------------------------------ pluginsMiddleware
\* "node_modules" is one symbol of a path
nodeModules == <<"node_modules">>

dotMap == <<".", "m", "a", "p">>

\* request paths the clients may ask for
ReqPaths ==
    { <<"/">>,
      <<"/", "a">>,
      <<"/", ".", "/", "a">>,
      <<"/", ".", ".", ".", "/", "c">>,
      <<"/", "a", ".", "m", "a", "p">>,
      <<"/", ".", ".", ".", "/", "node_modules", "/", "x">> }

\* the Accept header of a module import, and the one of a page navigation
Accepts == {"*/*", "text/html,*/*;q=0.8"}

FetchDests == {"script", "document"}

\* the header and suffix test in front of the handler
isModuleRequest_anyAccept(path, accept, dest) ==
    accept \in Accepts \/ dest = "script" \/ endsWith(path, dotMap)

isModuleRequest(path, accept, dest) ==
    accept = "*/*" \/ dest = "script" \/ endsWith(path, dotMap)

\* the test in front of watcher.add
shouldWatch_anyEscaped(path, filePath) ==
    startsWith(path, <<"/">> \o dotdotEncoding)

shouldWatch(path, filePath) ==
    /\ startsWith(path, <<"/">> \o dotdotEncoding)
    /\ ~includes(filePath, nodeModules)

\* the request passes the hmr middleware, then pluginsMiddleware up to its
\* first await
RequestArrive(r, path, accept, dest) ==
    /\ srv = "listening"
    /\ reqPc[r] = "idle"
    /\ hmrMiddlewareStep
    /\ reqPath' = [reqPath EXCEPT ![r] = path]
    /\ reqAccept' = [reqAccept EXCEPT ![r] = accept]
    /\ reqDest' = [reqDest EXCEPT ![r] = dest]
    /\ IF path = <<"/">>
       THEN /\ reqPc' = [reqPc EXCEPT ![r] = "next"]
            /\ UNCHANGED <<reqFile, watched, watchAdds, reqLoaded, reqWatch>>
       ELSE IF ~isModuleRequest(path, accept, dest)
       THEN /\ reqPc' = [reqPc EXCEPT ![r] = "next"]
            /\ UNCHANGED <<reqFile, watched, watchAdds, reqLoaded, reqWatch>>
       ELSE IF startsWith(path, <<".">>)
       THEN /\ reqPc' = [reqPc EXCEPT ![r] = "error"]
            /\ UNCHANGED <<reqFile, watched, watchAdds, reqLoaded, reqWatch>>
       ELSE LET filePath == importPathToFile(root, path) IN
            /\ reqFile' = [reqFile EXCEPT ![r] = filePath]
            /\ IF shouldWatch(path, filePath)
               THEN /\ watched' = watched \cup {filePath}
                    /\ watchAdds' = watchAdds + 1
                    /\ reqWatch' = [reqWatch EXCEPT ![r] = TRUE]
               ELSE UNCHANGED <<watched, watchAdds, reqWatch>>
            /\ reqLoaded' = [reqLoaded EXCEPT ![r] = "pending"]
            /\ reqPc' = [reqPc EXCEPT ![r] = "loading"]
    /\ UNCHANGED <<reqBody, reqTransformed, wsVars, closeVars, watchVars, resVars>>

\* pluginExecutor.load settles
LoadDone_noNullTest(r, hasContents) ==
    /\ reqPc[r] = "loading"
    /\ reqLoaded' = [reqLoaded EXCEPT ![r] =
                        IF hasContents THEN "contents" ELSE "null"]
    /\ reqPc' = [reqPc EXCEPT ![r] = "transforming"]
    /\ reqTransformed' = [reqTransformed EXCEPT ![r] = "pending"]
    /\ UNCHANGED <<reqPath, reqFile, reqBody, watched, watchAdds, reqAccept,
                   reqDest, reqWatch>>
    /\ UNCHANGED <<hmrVars, wsVars, closeVars, watchVars, resVars>>

LoadDone(r, hasContents) ==
    /\ reqPc[r] = "loading"
    /\ reqLoaded' = [reqLoaded EXCEPT ![r] =
                        IF hasContents THEN "contents" ELSE "null"]
    /\ IF hasContents
       THEN /\ reqPc' = [reqPc EXCEPT ![r] = "transforming"]
            /\ reqTransformed' = [reqTransformed EXCEPT ![r] = "pending"]
       ELSE /\ reqPc' = [reqPc EXCEPT ![r] = "next"]
            /\ UNCHANGED reqTransformed
    /\ UNCHANGED <<reqPath, reqFile, reqBody, watched, watchAdds, reqAccept,
                   reqDest, reqWatch>>
    /\ UNCHANGED <<hmrVars, wsVars, closeVars, watchVars, resVars>>

TransformResults == {"null", "contents", "contents+map"}

\* pluginExecutor.transform settles; a transform that produced something has
\* registered the imports of the file in the graph
TransformDone(r, result) ==
    /\ reqPc[r] = "transforming"
    /\ reqTransformed' = [reqTransformed EXCEPT ![r] = result]
    /\ IF result = "null"
       THEN /\ reqPc' = [reqPc EXCEPT ![r] = "next"]
            /\ UNCHANGED <<reqBody, graph>>
       ELSE /\ reqPc' = [reqPc EXCEPT ![r] = "body"]
            /\ reqBody' = [reqBody EXCEPT ![r] = result]
            /\ graph' = addImports(graph, osAgnosticPath(reqFile[r], root),
                                   {osAgnosticPath(i, root) :
                                        i \in ProjectImports(normalize(reqFile[r]))})
    /\ UNCHANGED <<reqPath, reqFile, watched, watchAdds, reqAccept, reqDest,
                   reqLoaded, reqWatch>>
    /\ UNCHANGED <<hmrVars, wsVars, closeVars, emitted, nChanges, lastHot,
                   lastChanged, resVars>>

\* ------------------------------------------- NodeResolvePlugin.onResolved
pkgF == <<"/", "r", "/", "node_modules", "/", "f">>
pkgG == <<"/", "r", "/", "node_modules", "/", "g">>

ResolvedPaths == {fileA, pkgF, pkgG}

isNodeModule(p) == includes(p, nodeModules)

\* the artifact the pre-bundler writes for an entry point
WEB_MODULES_PATH == <<"web_modules">>

artifactOf(k) == WEB_MODULES_PATH \o <<"/">> \o k

\* a resolved module becomes a node of the graph
GraphAdd(p) ==
    /\ osAgnosticPath(p, root) \notin DOMAIN graph
    /\ graph' = ensureEntry(graph, osAgnosticPath(p, root))
    /\ UNCHANGED <<hmrVars, wsVars, closeVars, emitted, nChanges, lastHot,
                   lastChanged, reqVars, resVars>>

\* onResolved(resolvedPath), up to its return or to the await of prebundle
OnResolved_noLookup(t, resolvedPath) ==
    /\ resPc[t] = "idle"
    /\ resPath' = [resPath EXCEPT ![t] = resolvedPath]
    /\ resPc' = [resPc EXCEPT ![t] = "prebundling"]
    /\ resEntry' = [resEntry EXCEPT ![t] =
                      {path_resolve(root, x) : x \in DOMAIN graph}]
    /\ runs' = runs + 1
    /\ resRun' = [resRun EXCEPT ![t] = runs + 1]
    /\ UNCHANGED <<resOut, bundleMap, bundleRun, resCause, resErr>>
    /\ UNCHANGED <<hmrVars, wsVars, closeVars, watchVars, reqVars>>

OnResolved(t, resolvedPath) ==
    /\ resPc[t] = "idle"
    /\ resPath' = [resPath EXCEPT ![t] = resolvedPath]
    /\ LET relativePath == path_relative(root, resolvedPath) IN
       IF ~isNodeModule(resolvedPath)
       THEN /\ resPc' = [resPc EXCEPT ![t] = "returned"]
            /\ UNCHANGED <<resEntry, resRun, resOut, runs>>
       ELSE IF bundleRun # 0 /\ relativePath \in DOMAIN bundleMap
       THEN /\ resPc' = [resPc EXCEPT ![t] = "returned"]
            /\ resOut' = [resOut EXCEPT ![t] = bundleMap[relativePath]]
            /\ UNCHANGED <<resEntry, resRun, runs>>
       ELSE /\ resPc' = [resPc EXCEPT ![t] = "prebundling"]
            /\ resEntry' = [resEntry EXCEPT ![t] =
                              {path_resolve(root, x) : x \in DOMAIN graph}]
            /\ runs' = runs + 1
            /\ resRun' = [resRun EXCEPT ![t] = runs + 1]
            /\ UNCHANGED resOut
    /\ UNCHANGED <<bundleMap, bundleRun, resCause, resErr>>
    /\ UNCHANGED <<hmrVars, wsVars, closeVars, watchVars, reqVars>>

notGenerated(relativePath) ==
    <<"Bundle for '", relativePath, "' was not generated in prebundling phase">>

\* prebundle resolves with a bundle map over some of its entry points
PrebundleResolved(t, K) ==
    /\ resPc[t] = "prebundling"
    /\ K \subseteq {osAgnosticPath(e, root) : e \in resEntry[t]}
    /\ bundleMap' = [k \in K |-> artifactOf(k)]
    /\ bundleRun' = resRun[t]
    /\ LET relativePath == path_relative(root, resPath[t]) IN
       IF relativePath \in K
       THEN /\ resPc' = [resPc EXCEPT ![t] = "returned"]
            /\ resOut' = [resOut EXCEPT ![t] = artifactOf(relativePath)]
            /\ UNCHANGED resErr
       ELSE /\ resPc' = [resPc EXCEPT ![t] = "thrown"]
            /\ resErr' = [resErr EXCEPT ![t] = notGenerated(relativePath)]
            /\ UNCHANGED resOut
    /\ resEntry' = [resEntry EXCEPT ![t] = {}]
    /\ UNCHANGED <<resPath, resRun, runs, resCause>>
    /\ UNCHANGED <<hmrVars, wsVars, closeVars, watchVars, reqVars>>

\* what a pre-bundle run may reject with
Causes == {"ENOENT", "Build failed"}

cannotPrebundle(e) == <<"Cannot prebundle: ", e>>

\* prebundle rejects with e: `Cannot prebundle` is thrown
PrebundleRejected_assigned(t, e) ==
    /\ resPc[t] = "prebundling"
    /\ resCause' = [resCause EXCEPT ![t] = e]
    /\ bundleMap' = <<>>
    /\ bundleRun' = resRun[t]
    /\ resPc' = [resPc EXCEPT ![t] = "thrown"]
    /\ resErr' = [resErr EXCEPT ![t] = notGenerated(path_relative(root, resPath[t]))]
    /\ resEntry' = [resEntry EXCEPT ![t] = {}]
    /\ UNCHANGED <<resPath, resRun, resOut, runs>>
    /\ UNCHANGED <<hmrVars, wsVars, closeVars, watchVars, reqVars>>

PrebundleRejected(t, e) ==
    /\ resPc[t] = "prebundling"
    /\ resCause' = [resCause EXCEPT ![t] = e]
    /\ resPc' = [resPc EXCEPT ![t] = "thrown"]
    /\ resErr' = [resErr EXCEPT ![t] = cannotPrebundle(e)]
    /\ resEntry' = [resEntry EXCEPT ![t] = {}]
    /\ UNCHANGED <<resPath, resRun, resOut, bundleMap, bundleRun, runs>>
    /\ UNCHANGED <<hmrVars, wsVars, closeVars, watchVars, reqVars>>

\* ---------------------------------------------------- metafileToBundleMap
MaxInputs == 2

\* outputs of a build, as esbuild names them in meta.outputs
nonChunkF == <<"web_modules", "/", "f">>
nonChunkG == <<"web_modules", "/", "g">>
chunkX == <<"web_modules", "/", "chunk.", "X">>

OutputNames == <<nonChunkF, nonChunkG, chunkX>>

\* inputs of an output, as esbuild names them in meta.outputs[output].inputs
InputNames ==
    { <<"node_modules", "/", "f">>,
      <<"node_modules", "/", "g">>,
      <<"r", "/", "node_modules", "/", "f">> }

\* the keys of an inputs object, in their order
InputLists ==
    {s \in UNION {[1..n -> InputNames] : n \in 0..MaxInputs} :
        \A i, j \in 1..Len(s) : i # j => s[i] # s[j]}

Metas ==
    {[i \in 1..Len(OutputNames) |-> [output |-> OutputNames[i], inputs |-> ins[i]]] :
        ins \in [1..Len(OutputNames) -> InputLists]}

\* process.cwd()
EsbuildCwds == {root, <<"/">>}

EntryFiles == {fileA, pkgF, pkgG}

basename(p) == split(p)[Len(split(p))]

isChunk(output) == startsWith(basename(output), <<"chunk.">>)

\* the [key, value] pairs of the outputs, in the order of Object.keys
RECURSIVE entriesOf_withChunks(_, _, _, _)
entriesOf_withChunks(inputFiles, r, esbuildCwd, outs) ==
    IF outs = <<>> THEN <<>>
    ELSE LET o == Head(outs)
             resolved == [i \in 1..Len(o.inputs) |-> path_resolve(esbuildCwd, o.inputs[i])]
             hits == {i \in 1..Len(resolved) : resolved[i] \in inputFiles}
             rest == entriesOf_withChunks(inputFiles, r, esbuildCwd, Tail(outs))
         IN IF hits = {} THEN rest
            ELSE LET i == CHOOSE h \in hits : \A g \in hits : h <= g
                 IN << <<osAgnosticPath(resolved[i], r),
                         osAgnosticPath(path_resolve(esbuildCwd, o.output), r)>> >>
                    \o rest

RECURSIVE entriesOf(_, _, _, _)
entriesOf(inputFiles, r, esbuildCwd, outs) ==
    IF outs = <<>> THEN <<>>
    ELSE LET o == Head(outs)
             resolved == [i \in 1..Len(o.inputs) |-> path_resolve(esbuildCwd, o.inputs[i])]
             hits == {i \in 1..Len(resolved) : resolved[i] \in inputFiles}
             rest == entriesOf(inputFiles, r, esbuildCwd, Tail(outs))
         IN IF isChunk(o.output) \/ hits = {} THEN rest
            ELSE LET i == CHOOSE h \in hits : \A g \in hits : h <= g
                 IN << <<osAgnosticPath(resolved[i], r),
                         osAgnosticPath(path_resolve(esbuildCwd, o.output), r)>> >>
                    \o rest

\* Object.fromEntries: the last pair of a key gives its value
fromEntries(pairs) ==
    [k \in {pairs[i][1] : i \in 1..Len(pairs)} |->
        LET last == CHOOSE i \in 1..Len(pairs) :
                        /\ pairs[i][1] = k
                        /\ \A j \in (i + 1)..Len(pairs) : pairs[j][1] # k
        IN pairs[last][2]]

metafileToBundleMap(entryPoints, r, esbuildCwd, meta) ==
    LET inputFiles == {path_resolve(r, x) : x \in entryPoints}
    IN fromEntries(entriesOf(inputFiles, r, esbuildCwd, meta))

BundleMapInit ==
    /\ cRoot = root
    /\ cArg \in [entryPoints : SUBSET EntryFiles, esbuildCwd : EsbuildCwds, meta : Metas]
    /\ cOp = "input"
    /\ cOut = <<>>

BuildBundleMap ==
    /\ cOp = "input"
    /\ cOut' = metafileToBundleMap(cArg.entryPoints, cRoot, cArg.esbuildCwd, cArg.meta)
    /\ cOp' = "bundleMap"
    /\ UNCHANGED <<cRoot, cArg>>

\* ---------------------------------------------------------- specifications
CodecNext ==
    \/ Encode /\ UNCHANGED serverVars
    \/ Decode /\ UNCHANGED serverVars
    \/ DecodeEncoded /\ UNCHANGED serverVars

CodecSpecInit == CodecInit /\ ServerInit

SpecCodec == CodecSpecInit /\ [][CodecNext]_vars

HmrNext ==
    \/ HttpRequest /\ UNCHANGED codecVars
    \/ \E f \in SrvFiles : Discover(f) /\ UNCHANGED codecVars
    \/ \E c \in Client, p \in Protocols : Upgrade(c, p) /\ UNCHANGED codecVars
    \/ \E c \in Client, path \in HotPaths : ClientSend(c, path) /\ UNCHANGED codecVars
    \/ \E c \in Client : SocketClosed(c) /\ UNCHANGED codecVars
    \/ \E f \in SrvFiles : FileChange(f) /\ UNCHANGED codecVars
    \/ Close /\ UNCHANGED codecVars
    \/ CloseResolved /\ UNCHANGED codecVars

Init == CodecOff /\ ServerInit

SpecHmr == Init /\ [][HmrNext]_vars

InvalidateNext ==
    \E f \in SrvFiles : FileChange(f) /\ UNCHANGED codecVars

InvalidateSpecInit == CodecOff /\ InvalidateInit

SpecInvalidate == InvalidateSpecInit /\ [][InvalidateNext]_vars

RequestNext ==
    \/ \E r \in Req, path \in ReqPaths, accept \in Accepts, dest \in FetchDests :
           RequestArrive(r, path, accept, dest) /\ UNCHANGED codecVars
    \/ \E r \in Req, hasContents \in BOOLEAN :
           LoadDone(r, hasContents) /\ UNCHANGED codecVars
    \/ \E r \in Req, result \in TransformResults :
           TransformDone(r, result) /\ UNCHANGED codecVars

SpecRequest == Init /\ [][RequestNext]_vars

ResolveNext ==
    \/ \E p \in ResolvedPaths : GraphAdd(p) /\ UNCHANGED codecVars
    \/ \E t \in Res, p \in ResolvedPaths : OnResolved(t, p) /\ UNCHANGED codecVars
    \/ \E t \in Res, K \in SUBSET {osAgnosticPath(p, root) : p \in ResolvedPaths} :
           PrebundleResolved(t, K) /\ UNCHANGED codecVars
    \/ \E t \in Res, e \in Causes : PrebundleRejected(t, e) /\ UNCHANGED codecVars

SpecResolve == Init /\ [][ResolveNext]_vars

BundleMapNext == BuildBundleMap /\ UNCHANGED serverVars

BundleMapSpecInit == BundleMapInit /\ ServerInit

SpecBundleMap == BundleMapSpecInit /\ [][BundleMapNext]_vars

\* ----------------------------------------------------- codec properties
\* C2: decoding the encoding of a normalized absolute path p, under or outside
\* the root, gives back exactly normalize(p).
RoundTripIsNormalize ==
    (cOp = "roundtrip" /\ isNormAbs(cArg)) => cOut = normalize(cArg)

\* C3: a request path (it starts with `/`) without the escape token `...` (also after percent
\* decoding) never decodes to a file outside the root.
NoTraversalWithoutEscape ==
    (/\ cOp = "decoded"
     /\ startsWith(cArg, <<"/">>)
     /\ ~includes(decodeURIComponent(cArg), dotdotEncoding))
        => isInside(cRoot, cOut)

\* C4: under one root, two distinct normalized absolute paths never encode to
\* the same URL path.
CodecCollisionFree ==
    (cOp = "encoded" /\ isNormAbs(cArg)) =>
        \A q \in NormAbsPaths : q # cArg => fileToImportPath(cRoot, q) # cOut

DotRunOutsideRootEncoded ==
    /\ cOp = "encoded"
    /\ isNormAbs(cArg)
    /\ includes(cArg, DotDot)
    /\ ~isInside(cRoot, cArg)

\* C5: the encoded URL path starts with `/`, has no segment equal to `..`,
\* and carries `...` wherever the relative path has a parent-directory step.
EncodeEscapeSafe ==
    cOp = "encoded" =>
        LET rel == split(path_relative(cRoot, path_resolve(cRoot, cArg)))
            url == split(Tail(cOut))
        IN /\ startsWith(cOut, <<"/">>)
           /\ \A i \in 1..Len(url) : url[i] # DotDot
           /\ Len(url) = Len(rel)
           /\ \A i \in 1..Len(rel) : rel[i] = DotDot => url[i] = dotdotEncoding

TwoParentStepsEncoded ==
    /\ cOp = "encoded"
    /\ startsWith(cOut, <<"/", ".", ".", ".", "/", ".", ".", ".">>)
    /\ Len(split(path_relative(cRoot, path_resolve(cRoot, cArg)))) >= 3

\* ------------------------------------------------------- hmr properties
\* C6: after a connected client has sent {type: "hotAccept", path: P}, the
\* graph has a node for the file P decodes to, with hasHmrAccept and
\* isHmrEnabled both true.
HotAcceptRegistered ==
    lastHot # <<>> =>
        LET k == osAgnosticPath(importPathToFile(root, lastHot), root)
        IN /\ k \in DOMAIN graph
           /\ graph[k].hasHmrAccept
           /\ graph[k].isHmrEnabled

accepted(c) == sockState[c] \in {"OPEN", "CLOSING", "CLOSED"}

\* C7: a client is accepted only if it presented the HMR sub-protocol, and
\* the first message on every accepted socket is {type: "connected"}.
HandshakeFirst ==
    \A c \in Client :
        /\ accepted(c) => proto[c] = HMR_SERVER_NAME
        /\ accepted(c) => outbox[c] # <<>>
        /\ outbox[c] # <<>> => outbox[c][1] = connected

ReloadAfterConnected ==
    /\ \E c \in Client : Len(outbox[c]) >= 2 /\ outbox[c][2].type = "full-reload"
    /\ \E c \in Client : proto[c] = "other" /\ ~accepted(c)

\* C9: when the promise returned by close() has resolved, the websocket
\* server is closed and no client socket is still open or closing.
OrderedTeardown ==
    srv = "closed" =>
        /\ wssClosed
        /\ \A c \in Client : sockState[c] \notin {"OPEN", "CLOSING"}

\* importer chains leaving node k: each node is imported by the next one
chainsFrom(g, k) ==
    {ch \in UNION {[1..n -> DOMAIN g] : n \in 1..Cardinality(DOMAIN g)} :
        /\ ch[1] = k
        /\ \A i \in 1..(Len(ch) - 1) : ch[i + 1] \in g[ch[i]].importers
        /\ \A i, j \in 1..Len(ch) : i # j => ch[i] # ch[j]}

\* chains that meet no self-accepting node before their last node
openChains(g, k) ==
    {ch \in chainsFrom(g, k) :
        \A i \in 1..(Len(ch) - 1) : ~g[ch[i]].hasHmrAccept}

boundaryOf(g, k) ==
    {ch[Len(ch)] : ch \in {x \in openChains(g, k) : g[x[Len(x)]].hasHmrAccept}}

reachesEntryUncovered(g, k) ==
    \E ch \in openChains(g, k) :
        /\ ~g[ch[Len(ch)]].hasHmrAccept
        /\ g[ch[Len(ch)]].importers = {}

updateOf(g, k, now) ==
    [type |-> "update", paths |-> {urlOfKey(b) : b \in boundaryOf(g, k)},
     timestamp |-> now]


changeOfNode ==
    /\ nChanges' = nChanges + 1
    /\ osAgnosticPath(lastChanged', root) \in DOMAIN graph

inFlight(r) == reqPc[r] \in {"loading", "transforming"}

\* C8: no two requests are loading or transforming the same file at the same
\* time.
OneLoadPerPath ==
    \A r1, r2 \in Req :
        (r1 # r2 /\ inFlight(r1) /\ inFlight(r2)) => reqFile[r1] # reqFile[r2]

\* C1: at most one pre-bundle run is in flight at any time.
OnePrebundleInFlight ==
    Cardinality({t \in Res : resPc[t] = "prebundling"}) <= 1

intercepted(r) == reqLoaded[r] # "none"

passedOn(r) ==
    /\ reqPc[r] = "next"
    /\ reqLoaded[r] = "none"
    /\ reqTransformed[r] = "none"
    /\ ~reqWatch[r]
    /\ reqBody[r] = ""

navigation(r) ==
    reqAccept[r] = "text/html,*/*;q=0.8" /\ reqDest[r] = "document"

\* C11: a request is handed to load only when its Accept header is exactly
\* */*, or its sec-fetch-dest is script, or its path ends in .map; every other
\* request, and every request for /, went on to the next middleware with no
\* load, no transform, no watcher registration and no body.
RequestFilter ==
    \A r \in Req :
        reqPc[r] # "idle" =>
            LET m == \/ reqAccept[r] = "*/*"
                     \/ reqDest[r] = "script"
                     \/ endsWith(reqPath[r], dotMap)
            IN /\ intercepted(r) => (m /\ reqPath[r] # <<"/">>)
               /\ (~m \/ reqPath[r] = <<"/">>) => passedOn(r)

\* a page navigation was passed on while the same path, asked for as a
\* module, was served
NavigationPassedOn ==
    \E r1, r2 \in Req :
        /\ reqPath[r1] = reqPath[r2]
        /\ navigation(r1)
        /\ passedOn(r1)
        /\ reqBody[r2] # ""

hasRelativeSegment(path) ==
    \E i \in 1..Len(split(path)) : split(path)[i] \in {<<".">>, DotDot}

\* C12: every request that passed the filter and whose path has a segment `.`
\* or `..` ended in an error, with nothing decoded, loaded, transformed or
\* watched.
RelativeSegmentRejected ==
    \A r \in Req :
        (/\ reqPc[r] # "idle"
         /\ isModuleRequest(reqPath[r], reqAccept[r], reqDest[r])
         /\ hasRelativeSegment(reqPath[r]))
        => (/\ reqPc[r] = "error"
            /\ reqFile[r] = <<>>
            /\ reqLoaded[r] = "none"
            /\ reqTransformed[r] = "none"
            /\ ~reqWatch[r])

escaped(r) == startsWith(reqPath[r], <<"/">> \o dotdotEncoding)

served(r) == reqBody[r] # ""

\* C13 as stated: an intercepted request adds its decoded path to the watch
\* set exactly when its URL begins with / and the escape token, and every file
\* outside root that was served is watched.
LazyWatchAsStated ==
    \A r \in Req :
        /\ intercepted(r) => (reqWatch[r] <=> escaped(r))
        /\ reqWatch[r] => reqFile[r] \in watched
        /\ (served(r) /\ ~isInside(root, reqFile[r])) => reqFile[r] \in watched

\* C13: an intercepted request adds its decoded path to the watch set exactly
\* when its URL begins with / and the escape token and the decoded path does
\* not contain node_modules; no other request adds a path; so every served
\* file that was asked for with the escape token and is outside node_modules
\* is watched.
LazyWatch ==
    /\ \A r \in Req :
        /\ intercepted(r) =>
               (reqWatch[r] <=>
                    (escaped(r) /\ ~includes(reqFile[r], nodeModules)))
        /\ ~intercepted(r) => ~reqWatch[r]
        /\ (served(r) /\ escaped(r) /\ ~includes(reqFile[r], nodeModules))
               => reqFile[r] \in watched
    /\ watched = {reqFile[r] : r \in {x \in Req : reqWatch[x]}}

\* a file outside root was served and is watched, while an escaped path into
\* node_modules was served unwatched
OutOfRootServedWatched ==
    \E r1, r2 \in Req :
        /\ served(r1) /\ ~isInside(root, reqFile[r1]) /\ reqFile[r1] \in watched
        /\ served(r2) /\ escaped(r2) /\ reqFile[r2] \notin watched

\* C17: a load that gave nothing or no contents sends the request on with no
\* transform and no body; a transform that gave nothing sends it on with no
\* body; a body is set only after load and then transform gave a result, and
\* it is the transformed contents followed by the source map, if any.
FallThrough ==
    \A r \in Req :
        /\ reqLoaded[r] \in {"none", "pending", "null"}
               => (reqTransformed[r] = "none" /\ reqBody[r] = "")
        /\ reqLoaded[r] = "null" => reqPc[r] = "next"
        /\ reqTransformed[r] \in {"pending", "null"} => reqBody[r] = ""
        /\ reqTransformed[r] = "null" => reqPc[r] = "next"
        /\ served(r) => (/\ reqLoaded[r] = "contents"
                         /\ reqTransformed[r] \in {"contents", "contents+map"}
                         /\ reqBody[r] = reqTransformed[r]
                         /\ reqPc[r] = "body")

\* one request fell through after an empty load, another after an empty
\* transform
FellThroughBoth ==
    \E r1, r2 \in Req :
        /\ reqLoaded[r1] = "null" /\ reqPc[r1] = "next"
        /\ reqTransformed[r2] = "null" /\ reqPc[r2] = "next"

\* ------------------------------------------------- pre-bundling properties
unbundled(p) ==
    bundleRun = 0 \/ path_relative(root, p) \notin DOMAIN bundleMap

\* C14: a call whose pre-bundle run rejected has thrown an error that carries
\* the cause; the rejection leaves the bundle map as it is and starts no run;
\* a later call for the same package, still unbundled, starts a new run.
PrebundleFailureHandled ==
    /\ [](\A t \in Res :
            resCause[t] # "" =>
                (resPc[t] = "thrown" /\ resErr[t] = cannotPrebundle(resCause[t])))
    /\ [][\A t \in Res :
            /\ resCause'[t] # resCause[t] =>
                   (/\ bundleMap' = bundleMap
                    /\ bundleRun' = bundleRun
                    /\ runs' = runs
                    /\ \A u \in Res : resPc'[u] = "prebundling" => resPc[u] = "prebundling")
            /\ (/\ resPc[t] = "idle"
                /\ resPc'[t] # "idle"
                /\ \E u \in Res : resCause[u] # "" /\ resPath[u] = resPath'[t]
                /\ unbundled(resPath'[t]))
               => (/\ resPc'[t] = "prebundling"
                   /\ runs' = runs + 1
                   /\ resRun'[t] = runs')]_vars

\* after a failed run a later call for the same package is running a newer one
NewRunAfterFailure ==
    \E t, u \in Res :
        /\ resCause[t] # ""
        /\ resPath[u] = resPath[t]
        /\ resPc[u] = "prebundling"
        /\ resRun[u] > resRun[t]

\* C18: a call for a path that is no node module, or whose key is in the
\* bundle map, starts no pre-bundle run and leaves the map as it is; a call
\* whose key is in the map returns the artifact the map holds for it.
PrebundleOnlyOnMiss ==
    [][\A t \in Res :
         (/\ resPc[t] = "idle"
          /\ resPc'[t] # "idle"
          /\ (~isNodeModule(resPath'[t]) \/ ~unbundled(resPath'[t])))
         => (/\ runs' = runs
             /\ bundleMap' = bundleMap
             /\ bundleRun' = bundleRun
             /\ resPc'[t] = "returned"
             /\ resRun'[t] = 0
             /\ isNodeModule(resPath'[t]) =>
                    resOut'[t] = bundleMap[path_relative(root, resPath'[t])])]_vars

\* a call was answered from the bundle map that an earlier call's run produced
ServedFromBundleMap ==
    \E t, u \in Res :
        /\ resPc[t] = "returned"
        /\ resRun[t] = 0
        /\ isNodeModule(resPath[t])
        /\ resOut[t] = artifactOf(path_relative(root, resPath[t]))
        /\ resRun[u] = bundleRun
        /\ bundleRun # 0

\* C20: the bundle map is never replaced by the result of a run that started
\* before the run that produced the current map, and a key of the map is
\* still a key after every replacement.
NoStaleOverwrite ==
    [][/\ bundleRun' >= bundleRun
       /\ bundleRun # 0 => DOMAIN bundleMap \subseteq DOMAIN bundleMap']_vars

\* ------------------------------------------------ change-event properties
changeStep == nChanges' = nChanges + 1

unimported(f) == osAgnosticPath(f, root) \notin DOMAIN graph

\* C15: a change event for a file with a node that follows a change event for
\* the same path, when every event so far gave a payload, leaves fewer
\* payloads than events; and the payloads keep the order of the events.
ChangeBurstDebounced ==
    [][(changeStep /\ nChanges >= 1 /\ lastChanged' = lastChanged
            /\ ~unimported(lastChanged') /\ Len(emitted) = nChanges)
       => (/\ Len(emitted') < nChanges'
           /\ SubSeq(emitted', 1, Len(emitted)) = emitted)]_vars

built == cOp = "bundleMap"

inputsOf(o) ==
    {path_resolve(cArg.esbuildCwd, o.inputs[i]) : i \in 1..Len(o.inputs)}

outputKey(o) == osAgnosticPath(path_resolve(cArg.esbuildCwd, o.output), cRoot)

entryKey(e) == osAgnosticPath(e, cRoot)

metaOutputs == {cArg.meta[j] : j \in 1..Len(cArg.meta)}

\* the first input of o that is an entry point
firstEntryOf(o, e) ==
    \E i \in 1..Len(o.inputs) :
        /\ path_resolve(cArg.esbuildCwd, o.inputs[i]) = e
        /\ \A j \in 1..(i - 1) :
               path_resolve(cArg.esbuildCwd, o.inputs[j]) \notin cArg.entryPoints

soundBundleMap ==
    /\ DOMAIN cOut \subseteq {entryKey(e) : e \in cArg.entryPoints}
    /\ \A k \in DOMAIN cOut :
           /\ \E o \in metaOutputs, e \in cArg.entryPoints :
                  /\ ~isChunk(o.output)
                  /\ cOut[k] = outputKey(o)
                  /\ entryKey(e) = k
                  /\ e \in inputsOf(o)
           /\ ~isChunk(cOut[k])

\* C19 as stated: the keys of the bundle map are root-relative paths of entry
\* points, each mapped to a non-chunk output that has the entry point among
\* its inputs, and every entry point that is an input of some non-chunk output
\* has a key.
BundleMapAsStated ==
    built =>
        /\ soundBundleMap
        /\ \A e \in cArg.entryPoints :
               (\E o \in metaOutputs : ~isChunk(o.output) /\ e \in inputsOf(o))
               => entryKey(e) \in DOMAIN cOut

\* C19: the keys of the bundle map are root-relative paths of entry points,
\* each mapped to a non-chunk output that has the entry point among its
\* inputs, never to a chunk, and every entry point that is the first entry
\* point among the inputs of some non-chunk output has a key.
BundleMapConstruction ==
    built =>
        /\ soundBundleMap
        /\ \A e \in cArg.entryPoints :
               (\E o \in metaOutputs : ~isChunk(o.output) /\ firstEntryOf(o, e))
               => entryKey(e) \in DOMAIN cOut

\* two entry points got their outputs while a chunk that holds one of them
\* got no key
TwoEntriesBundled ==
    /\ built
    /\ Cardinality(DOMAIN cOut) = 2
    /\ \E o \in metaOutputs :
           isChunk(o.output) /\ inputsOf(o) \cap cArg.entryPoints # {}

\* --------------------------------------------------- hmr wiring properties
\* C21: once an http request has been handled, the upgrade handler, the
\* connection handler and the broadcasting sendHmrMessage are installed once,
\* and the close handler once until close fires it; before that none is
\* installed. A payload handed to sendHmrMessage reaches every client whose
\* socket is OPEN and no other, and reaches no client before the first http
\* request.
WiredOnce ==
    /\ [](IF done
          THEN /\ upgradeHandlers = 1
               /\ connectionHandlers = 1
               /\ sendHmrMessage = "broadcast"
               /\ closeHandlers = IF srv = "listening" THEN 1 ELSE 0
          ELSE /\ upgradeHandlers = 0
               /\ connectionHandlers = 0
               /\ sendHmrMessage = "default"
               /\ closeHandlers = 0)
    /\ [][/\ (done /\ srv' = srv) =>
                UNCHANGED <<upgradeHandlers, connectionHandlers, closeHandlers,
                            sendHmrMessage, done>>
          /\ emitted' # emitted =>
                \E payload \in {emitted'[Len(emitted')]} :
                    /\ emitted' = Append(emitted, payload)
                    /\ \A c \in Client :
                           outbox'[c] = IF done /\ sockState[c] = "OPEN"
                                        THEN Append(outbox[c], payload)
                                        ELSE outbox[c]]_vars

\* every payload reached the open client, none reached the client that had
\* closed before
BroadcastToOpenOnly ==
    \E c1, c2 \in Client :
        /\ done
        /\ emitted # <<>>
        /\ sockState[c1] = "CLOSED"
        /\ outbox[c1] = <<connected>>
        /\ sockState[c2] = "OPEN"
        /\ outbox[c2] = <<connected>> \o emitted

====
